---- MODULE Spec2Model ----
(***************************************************************************)
(* Model of src/spark_app.py: one run of main() over a table read by       *)
(* spark.read.parquet and the arguments returned by parse_args().          *)
(*                                                                         *)
(* A DataFrame is modelled by the rows it denotes.  Spark expressions      *)
(* follow Spark SQL's default (non-ANSI, Spark >= 3.1) semantics: a        *)
(* comparison with NULL is NULL and filter() keeps only rows whose         *)
(* condition is TRUE; a string compared with a number is cast to double;   *)
(* a string literal compared with a timestamp column is cast to timestamp  *)
(* (NULL when it cannot be parsed); two strings compare lexicographically; *)
(* min/max/avg/stddev skip NULLs, count("*") and DataFrame.count() do not; *)
(* orderBy is ascending with NULLs first.                                  *)
(*                                                                         *)
(* An optional value is a sequence of length at most one: <<>> is          *)
(* None / NULL, <<v>> is the value v.                                      *)
(***************************************************************************)
EXTENDS Integers, Sequences, FiniteSets

\* ------------------------------------------------------------- bounds
\* Largest number of rows of the tables of the data-rich input family.
MaxRows == 3

\* ------------------------------------------------------ optional values
NULL == <<>>
None == <<>>
Some(v) == <<v>>

\* Python truthiness of an optional string: None and "" are falsy.
Truthy(x) == x # None /\ x # Some("")

\* ------------------------------------------------------------- columns
TimeColumn == "tpep_pickup_datetime"
BaseSchema ==
  [c \in {"trip_distance", "store_and_fwd_flag", "passenger_count"} |->
     CASE c = "trip_distance" -> "double"
       [] c = "store_and_fwd_flag" -> "string"
       [] OTHER -> "long"]

\* The time column is absent, a timestamp column, or a string column (what
\* parquet_converter.py writes: pandas reads the CSV's datetimes as strings).
TimeTypes == {"absent", "timestamp", "string"}

SchemaOf(timeType) ==
  IF timeType = "absent" THEN BaseSchema
  ELSE [c \in DOMAIN BaseSchema \cup {TimeColumn} |->
          IF c = TimeColumn THEN timeType ELSE BaseSchema[c]]

Columns(d) == DOMAIN d.schema

\* ------------------------------------------------------ Spark's casts
T1 == "2016-01-01 00:00:00"
T2 == "2016-01-31 23:59:59"

\* CAST(string AS TIMESTAMP): the instant (1 < 2), NULL when unparseable.
CastTimestamp(s) ==
  CASE s = T1 -> Some(1)
    [] s = T2 -> Some(2)
    [] OTHER -> NULL

\* The string pandas/CSV holds for an instant.
FormatTs(t) == IF t = 1 THEN T1 ELSE T2

\* CAST(string AS DOUBLE): NULL when the string is not a number.
CastDouble(s) ==
  CASE s = "1" -> Some(1)
    [] s = "2" -> Some(2)
    [] OTHER -> NULL

\* Rank of a string in the lexicographic (byte) order of the model's strings:
\* "" < digits < upper case < lower case.
StrRank(s) ==
  CASE s = "" -> 0
    [] s = "1" -> 1
    [] s = "2" -> 2
    [] s = T1 -> 3
    [] s = T2 -> 4
    [] s = "N" -> 5
    [] s = "Y" -> 6
    [] OTHER -> 7

\* The numeric value Spark compares or averages for a cell of a column.
NumericOf(type, cell) ==
  IF cell = NULL THEN NULL
  ELSE IF type = "string" THEN CastDouble(cell[1])
  ELSE cell

\* Total order of the non-null values of a column of the given type.
ValueLeq(type, a, b) ==
  IF type = "string" THEN StrRank(a) <= StrRank(b) ELSE a <= b

\* col >= lit(x) and col <= lit(x) for a float x: TRUE, or not (FALSE/NULL).
GeqDouble(type, cell, x) ==
  LET n == NumericOf(type, cell) IN n # NULL /\ n[1] >= x
LeqDouble(type, cell, x) ==
  LET n == NumericOf(type, cell) IN n # NULL /\ n[1] <= x

\* col >= lit(s) and col <= lit(s) for a Python string s.
GeqString(type, cell, s) ==
  IF type = "timestamp"
  THEN LET p == CastTimestamp(s) IN cell # NULL /\ p # NULL /\ cell[1] >= p[1]
  ELSE cell # NULL /\ StrRank(cell[1]) >= StrRank(s)
LeqString(type, cell, s) ==
  IF type = "timestamp"
  THEN LET p == CastTimestamp(s) IN cell # NULL /\ p # NULL /\ cell[1] <= p[1]
  ELSE cell # NULL /\ StrRank(cell[1]) <= StrRank(s)

\* ------------------------------------------------------- apply_filters
\* df.filter(cond) is SelectSeq(rows, cond): the rows whose condition is TRUE.
\* apply_filters with the attribute's lower bound exclusive.
apply_filters_exclusive_min(d, a) ==
  LET hasTime == TimeColumn \in Columns(d)
      r0 == d.rows
      r1 == IF hasTime /\ Truthy(a.start)
            THEN LET K(r) == GeqString(d.schema[TimeColumn], r[TimeColumn], a.start[1])
                 IN SelectSeq(r0, K)
            ELSE r0
      r2 == IF hasTime /\ Truthy(a.end)
            THEN LET K(r) == LeqString(d.schema[TimeColumn], r[TimeColumn], a.end[1])
                 IN SelectSeq(r1, K)
            ELSE r1
      r3 == IF a.min_value # None
            THEN LET K(r) == GeqDouble(d.schema[a.attribute], r[a.attribute], a.min_value[1] + 1)
                 IN SelectSeq(r2, K)
            ELSE r2
      r4 == IF a.max_value # None
            THEN LET K(r) == LeqDouble(d.schema[a.attribute], r[a.attribute], a.max_value[1])
                 IN SelectSeq(r3, K)
            ELSE r3
  IN r4

\* apply_filters without the test that the time column exists: the time
\* bounds are compared against a column that holds no value.
apply_filters_no_column_test(d, a) ==
  LET TimeType == IF TimeColumn \in Columns(d) THEN d.schema[TimeColumn] ELSE "timestamp"
      TimeOf(r) == IF TimeColumn \in DOMAIN r THEN r[TimeColumn] ELSE NULL
      r0 == d.rows
      r1 == IF Truthy(a.start)
            THEN LET K(r) == GeqString(TimeType, TimeOf(r), a.start[1])
                 IN SelectSeq(r0, K)
            ELSE r0
      r2 == IF Truthy(a.end)
            THEN LET K(r) == LeqString(TimeType, TimeOf(r), a.end[1])
                 IN SelectSeq(r1, K)
            ELSE r1
      r3 == IF a.min_value # None
            THEN LET K(r) == GeqDouble(d.schema[a.attribute], r[a.attribute], a.min_value[1])
                 IN SelectSeq(r2, K)
            ELSE r2
      r4 == IF a.max_value # None
            THEN LET K(r) == LeqDouble(d.schema[a.attribute], r[a.attribute], a.max_value[1])
                 IN SelectSeq(r3, K)
            ELSE r3
  IN r4

apply_filters(d, a) ==
  LET hasTime == TimeColumn \in Columns(d)
      r0 == d.rows
      r1 == IF hasTime /\ Truthy(a.start)
            THEN LET K(r) == GeqString(d.schema[TimeColumn], r[TimeColumn], a.start[1])
                 IN SelectSeq(r0, K)
            ELSE r0
      r2 == IF hasTime /\ Truthy(a.end)
            THEN LET K(r) == LeqString(d.schema[TimeColumn], r[TimeColumn], a.end[1])
                 IN SelectSeq(r1, K)
            ELSE r1
      r3 == IF a.min_value # None
            THEN LET K(r) == GeqDouble(d.schema[a.attribute], r[a.attribute], a.min_value[1])
                 IN SelectSeq(r2, K)
            ELSE r2
      r4 == IF a.max_value # None
            THEN LET K(r) == LeqDouble(d.schema[a.attribute], r[a.attribute], a.max_value[1])
                 IN SelectSeq(r3, K)
            ELSE r3
  IN r4

\* ------------------------------------------------- aggregate functions
\* The cells of column c, one per row.
Cells(rows, c) == [i \in 1..Len(rows) |-> rows[i][c]]

\* The numbers avg and stddev accumulate: the cells that are (or cast to) one.
NumbersOf(type, cells) ==
  LET Num(c) == NumericOf(type, c)
      IsNum(c) == Num(c) # NULL
      kept == SelectSeq(cells, IsNum)
  IN [i \in 1..Len(kept) |-> Num(kept[i])[1]]

RECURSIVE MinFrom(_, _, _, _)
MinFrom(type, cells, i, acc) ==
  IF i > Len(cells) THEN acc
  ELSE LET c == cells[i]
       IN MinFrom(type, cells, i + 1,
                  IF c = NULL THEN acc
                  ELSE IF acc = NULL \/ ~ValueLeq(type, acc[1], c[1]) THEN c
                  ELSE acc)

RECURSIVE MaxFrom(_, _, _, _)
MaxFrom(type, cells, i, acc) ==
  IF i > Len(cells) THEN acc
  ELSE LET c == cells[i]
       IN MaxFrom(type, cells, i + 1,
                  IF c = NULL THEN acc
                  ELSE IF acc = NULL \/ ~ValueLeq(type, c[1], acc[1]) THEN c
                  ELSE acc)

RECURSIVE SumFrom(_, _)
SumFrom(xs, i) == IF i > Len(xs) THEN 0 ELSE xs[i] + SumFrom(xs, i + 1)

RECURSIVE SumSqFrom(_, _)
SumSqFrom(xs, i) == IF i > Len(xs) THEN 0 ELSE xs[i] * xs[i] + SumSqFrom(xs, i + 1)

\* A minimum that a NULL cell turns into NULL instead of skipping it.
F_min_null_propagating(type, cells) ==
  IF \E i \in 1..Len(cells) : cells[i] = NULL THEN NULL
  ELSE MinFrom(type, cells, 1, NULL)

\* F.min / F.max: NULLs are skipped; NULL when there is no value.
F_min(type, cells) == MinFrom(type, cells, 1, NULL)
F_max(type, cells) == MaxFrom(type, cells, 1, NULL)

\* F.avg: the rational sum/n of the numbers, NULL when there is none.
F_avg(type, cells) ==
  LET xs == NumbersOf(type, cells)
  IN IF Len(xs) = 0 THEN NULL
     ELSE Some([num |-> SumFrom(xs, 1), den |-> Len(xs)])

\* F.stddev (stddev_samp): NULL for fewer than two numbers, else the square
\* root of the sample variance (n*sum(x^2) - sum(x)^2) / (n*(n-1)), kept as
\* that rational.
F_stddev(type, cells) ==
  LET xs == NumbersOf(type, cells)
      n == Len(xs)
  IN IF n < 2 THEN NULL
     ELSE Some([num |-> n * SumSqFrom(xs, 1) - SumFrom(xs, 1) * SumFrom(xs, 1),
                den |-> n * (n - 1)])

\* DataFrame.count(): the number of rows.
CountRows(rows) == Len(rows)

\* A count of the attribute column instead of "*": NULL cells do not count.
CountStar_non_null(cells) ==
  LET NotNull(c) == c # NULL IN Len(SelectSeq(cells, NotNull))

\* F.count("*") over a group, given the group's attribute cells: every row
\* counts, whatever its attribute.
CountStar(cells) == Len(cells)

\* df_filtered.agg(min, max, avg, stddev) of mode_filter.
FilterStats(d, a, rows) ==
  LET type == d.schema[a.attribute]
      cells == Cells(rows, a.attribute)
  IN [min |-> F_min(type, cells), max |-> F_max(type, cells),
      avg |-> F_avg(type, cells), stddev |-> F_stddev(type, cells)]

\* ------------------------------------------------------------ grouping
\* a sorts strictly before b under orderBy's ascending order, NULLs first.
KeyLess(type, a, b) ==
  a # b /\ (a = NULL \/ (b # NULL /\ ValueLeq(type, a[1], b[1])))

\* groupBy(g).agg(count("*"), min, max, avg, stddev): one row per distinct
\* value of g, NULL included.
GroupAgg(d, a, rows, g) ==
  LET type == d.schema[a.attribute]
      keys == {rows[i][g] : i \in 1..Len(rows)}
      Part(k) == LET In(r) == r[g] = k IN SelectSeq(rows, In)
  IN {[key |-> k,
       count |-> CountStar(Cells(Part(k), a.attribute)),
       min |-> F_min(type, Cells(Part(k), a.attribute)),
       max |-> F_max(type, Cells(Part(k), a.attribute)),
       avg |-> F_avg(type, Cells(Part(k), a.attribute)),
       stddev |-> F_stddev(type, Cells(Part(k), a.attribute))] : k \in keys}

\* The groups in descending key order.
RECURSIVE orderBy_descending(_, _)
orderBy_descending(type, groups) ==
  IF groups = {} THEN <<>>
  ELSE LET last == CHOOSE x \in groups :
                     \A y \in groups \ {x} : KeyLess(type, y.key, x.key)
       IN <<last>> \o orderBy_descending(type, groups \ {last})

\* .orderBy(g): the groups in ascending key order.
RECURSIVE orderBy(_, _)
orderBy(type, groups) ==
  IF groups = {} THEN <<>>
  ELSE LET first == CHOOSE x \in groups :
                      \A y \in groups \ {x} : KeyLess(type, x.key, y.key)
       IN <<first>> \o orderBy(type, groups \ {first})

\* ---------------------------------------------------------------- state
VARIABLES
  args,         \* parse_args(): mode, attribute, min_value, max_value, start, end, group_by, output
  df,           \* spark.read.parquet(args.input): schema and rows
  pc,           \* the statement main() is at
  df_filtered,  \* None, or Some(rows of apply_filters' result)
  count,        \* None, or Some(df_filtered.count()) of mode_filter
  stats,        \* None, or Some(the row of mode_filter's stats frame)
  grouped,      \* None, or Some(the rows of mode_group's grouped frame)
  written,      \* the write.parquet calls made so far, in order
  err           \* "none", or the exception that ended the run

vars == <<args, df, pc, df_filtered, count, stats, grouped, written, err>>

\* ---------------------------------------------------------------- inputs
Modes == {"filter", "group"}
\* Two columns of the table and one that is not a column.
Attributes == {"trip_distance", "store_and_fwd_flag", "trip_duration"}
MinValues == {None, Some(2)}
MaxValues == {None, Some(1)}
Starts == {None, Some(""), Some(T2), Some("not-a-date")}
Ends == {None, Some(T1), Some("not-a-date")}
\* A column of the table and one that is not a column.
GroupBys == {None, Some(""), Some("passenger_count"), Some("PULocationID")}
Outputs == {None, Some(""), Some("hdfs:///out")}

AttrCells == {NULL, Some(1), Some(2)}
FlagCells == {NULL, Some("N"), Some("Y"), Some("2")}
KeyCells == {NULL, Some(1), Some(2)}

\* The cell of the time column for instant t (0: NULL).
TimeCell(timeType, t) ==
  IF t = 0 THEN NULL
  ELSE IF timeType = "string" THEN Some(FormatTs(t)) ELSE Some(t)

MkRow(timeType, a, f, k, t) ==
  [c \in DOMAIN SchemaOf(timeType) |->
     CASE c = "trip_distance" -> a
       [] c = "store_and_fwd_flag" -> f
       [] c = "passenger_count" -> k
       [] OTHER -> TimeCell(timeType, t)]

MkArgs(m, at, lo, hi, st, en, g, o) ==
  [mode |-> m, attribute |-> at, min_value |-> lo, max_value |-> hi,
   start |-> st, end |-> en, group_by |-> g, output |-> o]

\* The rows of the three families of tables below.
QueryRows(tt) ==
  {MkRow(tt, c, Some("N"), Some(1), t) : c \in AttrCells, t \in 0..2}
NumericRows ==
  {MkRow("timestamp", c, Some("N"), k, t) : c \in AttrCells, k \in KeyCells, t \in 1..2}
StringRows ==
  {MkRow("absent", Some(1), f, k, 0) : f \in FlagCells, k \in {NULL, Some(1)}}

\* Every combination of arguments, over tables of at most one row.
InitQuery ==
  \E m \in Modes, at \in Attributes, lo \in MinValues, hi \in MaxValues,
     st \in Starts, en \in Ends, g \in GroupBys, o \in Outputs,
     tt \in TimeTypes, n \in 0..1 :
    \E rs \in [1..n -> QueryRows(tt)] :
      /\ args = MkArgs(m, at, lo, hi, st, en, g, o)
      /\ df = [schema |-> SchemaOf(tt), rows |-> rs]

\* Tables of up to MaxRows rows with a numeric attribute, a group key and a
\* timestamp, summarized without a filter, or from min_value and start on.
InitNumeric ==
  \E m \in Modes, f \in {<<None, None>>, <<Some(2), Some(T2)>>}, n \in 0..MaxRows :
    \E rs \in [1..n -> NumericRows] :
      /\ args = MkArgs(m, "trip_distance", f[1], None, f[2], None,
                       Some("passenger_count"), Some("hdfs:///out"))
      /\ df = [schema |-> SchemaOf("timestamp"), rows |-> rs]

\* Tables of up to MaxRows rows whose attribute is the string column.
InitString ==
  \E m \in Modes, lo \in MinValues,
     g \in {Some("passenger_count"), Some("store_and_fwd_flag")}, n \in 0..MaxRows :
    \E rs \in [1..n -> StringRows] :
      /\ args = MkArgs(m, "store_and_fwd_flag", lo, None, None, None, g, None)
      /\ df = [schema |-> SchemaOf("absent"), rows |-> rs]

Init ==
  /\ InitQuery \/ InitNumeric \/ InitString
  /\ pc = "main"
  /\ df_filtered = None
  /\ count = None
  /\ stats = None
  /\ grouped = None
  /\ written = <<>>
  /\ err = "none"

\* ---------------------------------------------------------------- main
\* No attribute check at all.
AttributeInColumns_unchecked(d, a) == TRUE

\* args.attribute in df.columns
AttributeInColumns(d, a) == a.attribute \in Columns(d)

\* F.col(name) resolves against the frame's schema.
Resolves(d, name) == name \in Columns(d)

\* Lines 172-180: the attribute check, then the dispatch on args.mode
\* (argparse admits no other mode, so the final else is never taken).
Main_CheckAttribute ==
  /\ pc = "main"
  /\ IF ~AttributeInColumns(df, args)
     THEN pc' = "failed" /\ err' = "ValueError"
     ELSE /\ pc' = IF args.mode = "filter" THEN "mode_filter" ELSE "mode_group"
          /\ err' = err
  /\ UNCHANGED <<args, df, df_filtered, count, stats, grouped, written>>

\* What apply_filters' filter() calls need resolved.
FiltersResolve(d, a) ==
  (a.min_value # None \/ a.max_value # None) => Resolves(d, a.attribute)

\* ---------------------------------------------------------- mode_filter
\* Line 96.
ModeFilter_ApplyFilters ==
  /\ pc = "mode_filter"
  /\ IF ~FiltersResolve(df, args)
     THEN pc' = "failed" /\ err' = "AnalysisException" /\ df_filtered' = df_filtered
     ELSE /\ df_filtered' = Some(apply_filters(df, args))
          /\ pc' = "filter_count"
          /\ err' = err
  /\ UNCHANGED <<args, df, count, stats, grouped, written>>

\* Lines 98-105: count the rows; return when there is none.
ModeFilter_Count ==
  /\ pc = "filter_count"
  /\ count' = Some(CountRows(df_filtered[1]))
  /\ pc' = IF count'[1] = 0 THEN "done" ELSE "filter_stats"
  /\ UNCHANGED <<args, df, df_filtered, stats, grouped, written, err>>

\* Lines 107-117.
ModeFilter_Stats ==
  /\ pc = "filter_stats"
  /\ IF ~Resolves(df, args.attribute)
     THEN pc' = "failed" /\ err' = "AnalysisException" /\ stats' = stats
     ELSE /\ stats' = Some(FilterStats(df, args, df_filtered[1]))
          /\ pc' = "filter_write"
          /\ err' = err
  /\ UNCHANGED <<args, df, df_filtered, count, grouped, written>>

\* Writing the statistics row instead of the filtered rows.
FilterOutput_stats(a, rows, st) == [path |-> a.output[1], kind |-> "stats", data |-> <<st>>]

\* What mode_filter writes: the filtered rows.
FilterOutput(a, rows, st) == [path |-> a.output[1], kind |-> "rows", data |-> rows]

\* Lines 119-121, then the return to main and spark.stop().
ModeFilter_Write ==
  /\ pc = "filter_write"
  /\ written' = IF Truthy(args.output)
                THEN Append(written, FilterOutput(args, df_filtered[1], stats[1]))
                ELSE written
  /\ pc' = "done"
  /\ UNCHANGED <<args, df, df_filtered, count, stats, grouped, err>>

\* ----------------------------------------------------------- mode_group
\* "group_by is None" instead of "not group_by": "" passes.
GroupByMissing_none_only(a) == a.group_by = None

\* not group_by
GroupByMissing(a) == ~Truthy(a.group_by)

\* Lines 131-135.
ModeGroup_CheckGroupBy ==
  /\ pc = "mode_group"
  /\ IF GroupByMissing(args)
     THEN pc' = "failed" /\ err' = "ValueError"
     ELSE pc' = "group_filter" /\ err' = err
  /\ UNCHANGED <<args, df, df_filtered, count, stats, grouped, written>>

\* Line 137.
ModeGroup_ApplyFilters ==
  /\ pc = "group_filter"
  /\ IF ~FiltersResolve(df, args)
     THEN pc' = "failed" /\ err' = "AnalysisException" /\ df_filtered' = df_filtered
     ELSE /\ df_filtered' = Some(apply_filters(df, args))
          /\ pc' = "group_agg"
          /\ err' = err
  /\ UNCHANGED <<args, df, count, stats, grouped, written>>

\* The grouped frame of lines 143-153.
Grouped(d, a, rows) ==
  orderBy(d.schema[a.group_by[1]], GroupAgg(d, a, rows, a.group_by[1]))

\* Lines 143-156: groupBy raises when group_by is not a column.
ModeGroup_Agg ==
  /\ pc = "group_agg"
  /\ IF ~Resolves(df, args.group_by[1]) \/ ~Resolves(df, args.attribute)
     THEN pc' = "failed" /\ err' = "AnalysisException" /\ grouped' = grouped
     ELSE /\ grouped' = Some(Grouped(df, args, df_filtered[1]))
          /\ pc' = "group_write"
          /\ err' = err
  /\ UNCHANGED <<args, df, df_filtered, count, stats, written>>

\* What mode_group writes: the grouped statistics.
GroupOutput(a, groups) == [path |-> a.output[1], kind |-> "groups", data |-> groups]

\* Lines 158-160, then the return to main and spark.stop().
ModeGroup_Write ==
  /\ pc = "group_write"
  /\ written' = IF Truthy(args.output)
                THEN Append(written, GroupOutput(args, grouped[1]))
                ELSE written
  /\ pc' = "done"
  /\ UNCHANGED <<args, df, df_filtered, count, stats, grouped, err>>

Next ==
  \/ Main_CheckAttribute
  \/ ModeFilter_ApplyFilters
  \/ ModeFilter_Count
  \/ ModeFilter_Stats
  \/ ModeFilter_Write
  \/ ModeGroup_CheckGroupBy
  \/ ModeGroup_ApplyFilters
  \/ ModeGroup_Agg
  \/ ModeGroup_Write

Spec == Init /\ [][Next]_vars

\* -------------------------------------------------- the run as a whole
\* What a finished run of main() leaves behind, computed in one step.
mode_filter(d, a) ==
  LET rows == apply_filters(d, a)
      n == CountRows(rows)
      st == FilterStats(d, a, rows)
  IN IF n = 0
     THEN [err |-> "none", count |-> Some(0), stats |-> None, grouped |-> None,
           written |-> <<>>]
     ELSE [err |-> "none", count |-> Some(n), stats |-> Some(st), grouped |-> None,
           written |-> IF Truthy(a.output) THEN <<FilterOutput(a, rows, st)>> ELSE <<>>]

mode_group(d, a) ==
  IF GroupByMissing(a)
  THEN [err |-> "ValueError", count |-> None, stats |-> None, grouped |-> None,
        written |-> <<>>]
  ELSE IF ~Resolves(d, a.group_by[1])
  THEN [err |-> "AnalysisException", count |-> None, stats |-> None,
        grouped |-> None, written |-> <<>>]
  ELSE LET gs == Grouped(d, a, apply_filters(d, a))
       IN [err |-> "none", count |-> None, stats |-> None, grouped |-> Some(gs),
           written |-> IF Truthy(a.output) THEN <<GroupOutput(a, gs)>> ELSE <<>>]

main(d, a) ==
  IF ~AttributeInColumns(d, a)
  THEN [err |-> "ValueError", count |-> None, stats |-> None, grouped |-> None,
        written |-> <<>>]
  ELSE IF a.mode = "filter" THEN mode_filter(d, a) ELSE mode_group(d, a)

Finished == pc \in {"done", "failed"}
Observed ==
  [err |-> err, count |-> count, stats |-> stats, grouped |-> grouped,
   written |-> written]

\* The step-by-step run ends where the one-step run does.
RunAgrees == Finished => Observed = main(df, args)

\* ================================================================ claims
\* Helpers of the claims, stated on their own terms.
HasTimeColumn == TimeColumn \in Columns(df)
AttrType == df.schema[args.attribute]
AttrAtLeast(r, x) == GeqDouble(AttrType, r[args.attribute], x)
AttrAtMost(r, x) == LeqDouble(AttrType, r[args.attribute], x)
\* A row without the time column satisfies no bound on it.
TimeAtLeast(r, s) ==
  TimeColumn \in DOMAIN r /\ GeqString(df.schema[TimeColumn], r[TimeColumn], s)
TimeAtMost(r, s) ==
  TimeColumn \in DOMAIN r /\ LeqString(df.schema[TimeColumn], r[TimeColumn], s)
NonEmpty(x) == x # None /\ x # Some("")

\* C1 as stated: a row is kept by apply_filters iff it satisfies every
\* filter that is given (attribute >= min_value, attribute <= max_value,
\* time column >= start, time column <= end, all inclusive); with no filter
\* given every row is kept; the kept rows are never more than the table's.
C1_KeptIffEveryGivenFilter ==
  df_filtered # None =>
    LET Sat(r) == /\ args.min_value # None => AttrAtLeast(r, args.min_value[1])
                  /\ args.max_value # None => AttrAtMost(r, args.max_value[1])
                  /\ args.start # None => TimeAtLeast(r, args.start[1])
                  /\ args.end # None => TimeAtMost(r, args.end[1])
    IN /\ df_filtered[1] = SelectSeq(df.rows, Sat)
       /\ (args.min_value = None /\ args.max_value = None /\ args.start = None
             /\ args.end = None) => df_filtered[1] = df.rows
       /\ Len(df_filtered[1]) <= Len(df.rows)

\* C1 as amended: a time bound is a filter only when it is a non-empty
\* string and the time column is a column of the table; otherwise as C1.
C1_KeptIffEveryAppliedFilter ==
  df_filtered # None =>
    LET Sat(r) == /\ args.min_value # None => AttrAtLeast(r, args.min_value[1])
                  /\ args.max_value # None => AttrAtMost(r, args.max_value[1])
                  /\ (NonEmpty(args.start) /\ HasTimeColumn)
                       => TimeAtLeast(r, args.start[1])
                  /\ (NonEmpty(args.end) /\ HasTimeColumn)
                       => TimeAtMost(r, args.end[1])
    IN /\ df_filtered[1] = SelectSeq(df.rows, Sat)
       /\ (args.min_value = None /\ args.max_value = None /\ args.start = None
             /\ args.end = None) => df_filtered[1] = df.rows
       /\ Len(df_filtered[1]) <= Len(df.rows)

\* Three rows under a lower bound and a start: the one on both bounds is
\* kept, one is below min_value, one is before start.
C1_Witness ==
  /\ df_filtered # None
  /\ HasTimeColumn
  /\ args.min_value = Some(2) /\ args.start = Some(T2)
  /\ Len(df.rows) = 3
  /\ df.rows[1]["trip_distance"] = Some(1)
  /\ df.rows[3]["trip_distance"] = Some(2) /\ df.rows[3][TimeColumn] = Some(1)
  /\ df_filtered[1] = <<df.rows[2]>>
  /\ df.rows[2]["trip_distance"] = Some(2)
  /\ df.rows[2][TimeColumn] = Some(2)

\* ---------------------------------------------------------------- C2
GroupKey == args.group_by[1]
\* a comes strictly before b in ascending key order (a NULL key first).
KeyBefore(type, a, b) ==
  /\ a # b
  /\ \/ a = NULL
     \/ /\ b # NULL
        /\ IF type = "string" THEN StrRank(a[1]) < StrRank(b[1]) ELSE a[1] < b[1]
RowsWithKey(rows, k) == {j \in 1..Len(rows) : rows[j][GroupKey] = k}

\* C2: in Group mode the groups are an ordered partition of the filtered
\* rows: one group per distinct group_by value among them (NULL its own
\* group), in strictly ascending key order, each counting its rows, the
\* counts summing to the number of filtered rows.
C2_GroupsPartitionFilteredRows ==
  grouped # None =>
    LET gs == grouped[1]
        rows == df_filtered[1]
        counts == [i \in 1..Len(gs) |-> gs[i].count]
    IN /\ {gs[i].key : i \in 1..Len(gs)} = {rows[j][GroupKey] : j \in 1..Len(rows)}
       /\ \A i, j \in 1..Len(gs) :
            i < j => KeyBefore(df.schema[GroupKey], gs[i].key, gs[j].key)
       /\ \A i \in 1..Len(gs) :
            gs[i].count = Cardinality(RowsWithKey(rows, gs[i].key))
       /\ SumFrom(counts, 1) = Len(rows)

\* Three rows, one dropped by the filters, the others in the groups of the
\* NULL key and of key 2, met in the table in the other order.
C2_Witness ==
  /\ grouped # None
  /\ Len(df.rows) = 3
  /\ Len(df_filtered[1]) = 2
  /\ df_filtered[1][1][GroupKey] = Some(2)
  /\ df_filtered[1][2][GroupKey] = NULL
  /\ Len(grouped[1]) = 2
  /\ grouped[1][1].key = NULL /\ grouped[1][1].count = 1
  /\ grouped[1][2].key = Some(2) /\ grouped[1][2].count = 1

\* ---------------------------------------------------------------- C3
NotNullAttr(r) == r[args.attribute] # NULL
SameStats(g, st) ==
  g.min = st.min /\ g.max = st.max /\ g.avg = st.avg /\ g.stddev = st.stddev
\* The least / greatest of the non-null attribute values of the rows.
Extreme(rows, least) ==
  LET vals == {rows[j][args.attribute][1] :
                 j \in {i \in 1..Len(rows) : NotNullAttr(rows[i])}}
  IN IF vals = {} THEN NULL
     ELSE Some(CHOOSE m \in vals :
                 \A v \in vals : IF least THEN ValueLeq(AttrType, m, v)
                                 ELSE ValueLeq(AttrType, v, m))
Partition(rows, k) == LET In(r) == r[GroupKey] = k IN SelectSeq(rows, In)

\* C3 as stated: the reported count of a partition is the number of its
\* filtered rows with a non-null attribute, in Filter and in Group mode.
C3_CountSkipsNullAttribute ==
  /\ count # None => count[1] = Len(SelectSeq(df_filtered[1], NotNullAttr))
  /\ grouped # None =>
       \A i \in 1..Len(grouped[1]) :
         grouped[1][i].count =
           Len(SelectSeq(Partition(df_filtered[1], grouped[1][i].key), NotNullAttr))

\* C3 as amended: a filtered row with a null attribute contributes to
\* neither min, max, sum/mean nor stddev of its partition (they are those of
\* the partition without such rows), but it is counted: the reported count
\* is the number of the partition's filtered rows.
C3_NullSkippedByStatsButCounted ==
  /\ count # None => count[1] = Len(df_filtered[1])
  /\ stats # None =>
       /\ SameStats(stats[1], FilterStats(df, args, SelectSeq(df_filtered[1], NotNullAttr)))
       /\ stats[1].min = Extreme(df_filtered[1], TRUE)
       /\ stats[1].max = Extreme(df_filtered[1], FALSE)
  /\ grouped # None =>
       \A i \in 1..Len(grouped[1]) :
         LET g == grouped[1][i]
             part == Partition(df_filtered[1], g.key)
         IN /\ g.count = Len(part)
            /\ SameStats(g, FilterStats(df, args, SelectSeq(part, NotNullAttr)))
            /\ g.min = Extreme(part, TRUE)
            /\ g.max = Extreme(part, FALSE)

\* A group of two rows, one with a null attribute: counted, not averaged.
C3_Witness ==
  /\ grouped # None
  /\ \E i \in 1..Len(grouped[1]) :
       /\ grouped[1][i].count = 2
       /\ grouped[1][i].avg # NULL
       /\ grouped[1][i].avg[1].den = 1

\* ---------------------------------------------------------------- C4
AnyNull(g) == g.min = NULL \/ g.max = NULL \/ g.avg = NULL \/ g.stddev = NULL
NumbersIn(rows) == Len(NumbersOf(AttrType, Cells(rows, args.attribute)))
ValuesIn(rows) == Len(SelectSeq(rows, NotNullAttr))
NullsExplained(g, rows) ==
  /\ g.min = NULL => ValuesIn(rows) = 0
  /\ g.max = NULL => ValuesIn(rows) = 0
  /\ g.avg = NULL => NumbersIn(rows) = 0
  /\ g.stddev = NULL => NumbersIn(rows) < 2

\* C4 as stated (for a query whose group_by, in Group mode, is a column):
\* when no row passes the filters the query ends without an error, with
\* count = 0 and min, max, mean, stddev all null; and a statistic field is
\* null only when count = 0.
C4_EmptyIffNullStats ==
  /\ (df_filtered = Some(<<>>) /\ (args.mode = "group" => GroupKey \in Columns(df))) =>
       /\ err = "none"
       /\ (Finished /\ args.mode = "filter") => count = Some(0) /\ stats = None
       /\ (Finished /\ args.mode = "group") => grouped = Some(<<>>)
  /\ (stats # None /\ AnyNull(stats[1])) => count = Some(0)
  /\ grouped # None =>
       \A i \in 1..Len(grouped[1]) : AnyNull(grouped[1][i]) => grouped[1][i].count = 0

\* C4 as amended: when no row passes the filters of a query whose group_by
\* (in Group mode) is a column, the run ends without an error: Filter mode
\* reports count = 0, computes no statistics and writes nothing, Group mode
\* reports no group.  min and max are null only when the partition has no
\* non-null attribute value, mean only when it has no numeric value, stddev
\* only when it has fewer than two: with count = 0, but also with count > 0.
C4_EmptyResultAndNullStats ==
  /\ (df_filtered = Some(<<>>) /\ (args.mode = "group" => GroupKey \in Columns(df))) =>
       /\ err = "none"
       /\ pc = "done" \/ ENABLED Next
       /\ (Finished /\ args.mode = "filter") =>
            count = Some(0) /\ stats = None /\ written = <<>>
       /\ (Finished /\ args.mode = "group") => grouped = Some(<<>>)
  /\ count = Some(0) => stats = None
  /\ stats # None => NullsExplained(stats[1], df_filtered[1])
  /\ grouped # None =>
       \A i \in 1..Len(grouped[1]) :
         NullsExplained(grouped[1][i], Partition(df_filtered[1], grouped[1][i].key))

\* A bound that no row of a non-empty table meets, in Filter mode.
C4_Witness ==
  /\ pc = "done"
  /\ args.mode = "filter"
  /\ Len(df.rows) > 0
  /\ args.min_value # None
  /\ count = Some(0)
  /\ stats = None
  /\ err = "none"

\* ---------------------------------------------------------------- C5
NothingComputed ==
  /\ df_filtered = None
  /\ count = None
  /\ stats = None
  /\ grouped = None
  /\ written = <<>>

\* C5: a query whose attribute is not a column fails with a validation error
\* in either mode before any filter is applied, any statistic is computed or
\* any output is written.
C5_UnknownAttributeFailsFirst ==
  args.attribute \notin Columns(df) =>
    /\ pc = "main" \/ (pc = "failed" /\ err = "ValueError")
    /\ NothingComputed

\* Group mode with an output path over a table with rows: main has raised.
C5_Witness ==
  /\ pc = "failed"
  /\ err = "ValueError"
  /\ args.attribute \notin Columns(df)
  /\ args.mode = "group"
  /\ NonEmpty(args.output)
  /\ Len(df.rows) > 0

\* ---------------------------------------------------------------- C6
\* C6: a query whose attribute is a column but not a numeric one fails
\* validation before any row is aggregated: no statistics are ever computed
\* over a non-numeric attribute, neither the row of Filter mode nor a group
\* of Group mode.
C6_NoStatsOverNonNumericAttribute ==
  (args.attribute \in Columns(df) /\ AttrType \notin {"double", "long"}) =>
    /\ stats = None
    /\ grouped # None => grouped[1] = <<>>

\* ---------------------------------------------------------------- C7
BadGroupBy == ~NonEmpty(args.group_by) \/ GroupKey \notin Columns(df)

\* C7 as stated: in Group mode a group_by that is absent, empty or not a
\* column fails with an error before any filter is applied, any group
\* statistic is computed or any output is written; in Filter mode group_by
\* has no effect on the result.
C7_BadGroupByFailsBeforeFilters ==
  /\ (args.mode = "group" /\ BadGroupBy) =>
       /\ Finished => pc = "failed"
       /\ NothingComputed
  /\ (args.mode = "filter" /\ Finished) =>
       Observed = main(df, [args EXCEPT !.group_by = None])

\* C7 as amended: an absent or empty group_by fails before apply_filters is
\* called; a group_by that is not a column fails at groupBy, after
\* apply_filters built the filtered frame; in both cases before any group
\* statistic is computed or any output is written.  Filter mode as stated.
C7_BadGroupByFailsBeforeStats ==
  /\ (args.mode = "group" /\ BadGroupBy) =>
       /\ Finished => (pc = "failed" /\ err # "none")
       /\ count = None /\ stats = None /\ grouped = None /\ written = <<>>
       /\ ~NonEmpty(args.group_by) => df_filtered = None
  /\ (args.mode = "filter" /\ Finished) =>
       Observed = main(df, [args EXCEPT !.group_by = None])

\* group_by names no column: groupBy raised after apply_filters returned.
C7_Witness ==
  /\ pc = "failed"
  /\ args.mode = "group"
  /\ args.group_by = Some("PULocationID")
  /\ err = "AnalysisException"
  /\ df_filtered # None
  /\ NonEmpty(args.output)

\* ---------------------------------------------------------------- C8
Unparseable(x) == NonEmpty(x) /\ CastTimestamp(x[1]) = NULL

\* C8: with the time column in the schema, a start or end that cannot be
\* parsed as a timestamp makes the query (here over a table that has rows)
\* fail instead of producing a result.
C8_UnparseableTimeBoundFails ==
  (HasTimeColumn /\ Len(df.rows) > 0
     /\ (Unparseable(args.start) \/ Unparseable(args.end))) =>
    /\ pc # "done"
    /\ count = None /\ stats = None /\ grouped = None

\* ---------------------------------------------------------------- C9
\* C9: without the time column, start and end are skipped: the run ends as
\* the run of the same query without start and end does, and the kept rows
\* are exactly those within min_value and max_value.
C9_TimeBoundsSkippedWithoutColumn ==
  ~HasTimeColumn =>
    /\ Finished => Observed = main(df, [args EXCEPT !.start = None, !.end = None])
    /\ df_filtered # None =>
         LET Sat(r) == /\ args.min_value # None => AttrAtLeast(r, args.min_value[1])
                       /\ args.max_value # None => AttrAtMost(r, args.max_value[1])
         IN df_filtered[1] = SelectSeq(df.rows, Sat)

\* No time column, an unparseable start and an end: the row within
\* min_value is kept and summarized.
C9_Witness ==
  /\ pc = "done"
  /\ ~HasTimeColumn
  /\ args.start = Some("not-a-date")
  /\ args.end = Some(T1)
  /\ args.min_value = Some(2)
  /\ count = Some(1)
  /\ stats # None
  /\ err = "none"

\* --------------------------------------------------------------- C10
\* C10: output is written at most once, only with an output path and only
\* after the statistics were computed; Filter mode writes the filtered rows
\* and nothing when no row matched; Group mode writes the grouped statistics
\* whenever a path is given, also with no group; a failed run writes nothing.
C10_OutputWrittenOnceAfterStats ==
  /\ Len(written) <= 1
  /\ written # <<>> =>
       /\ NonEmpty(args.output) /\ written[1].path = args.output[1]
       /\ args.mode = "filter" =>
            /\ stats # None /\ count # None /\ count[1] > 0
            /\ written[1].kind = "rows" /\ written[1].data = df_filtered[1]
       /\ args.mode = "group" =>
            /\ grouped # None
            /\ written[1].kind = "groups" /\ written[1].data = grouped[1]
  /\ (pc = "done" /\ NonEmpty(args.output)) =>
       Len(written) = IF args.mode = "filter" /\ count = Some(0) THEN 0 ELSE 1
  /\ err # "none" => written = <<>>

\* Group mode, no row passed the filters: the empty grouped frame is written.
C10_Witness ==
  /\ pc = "done"
  /\ args.mode = "group"
  /\ grouped = Some(<<>>)
  /\ Len(df.rows) > 0
  /\ Len(written) = 1
  /\ written[1].data = <<>>

====
